---- MODULE Spec2Model ----
(***************************************************************************)
(* Model of pip's `index` command (src/pip/_internal/commands/index.py):   *)
(* IndexCommand.run dispatching to get_available_package_versions and      *)
(* get_latest_version, both built on _get_versions.                        *)
(*                                                                         *)
(* Strings are modelled as sequences of tokens, so that str.format and     *)
(* str.join are computed and not assumed.  A version object is a record;   *)
(* two version objects are equal (==, hash) when their comparison keys are *)
(* equal, which is coarser than equality of their spelling.                *)
(***************************************************************************)
EXTENDS Integers, Sequences, FiniteSets, TLC

\* Longest list of package names after the verb.
MaxTargets == 2
\* Longest candidate sequence the finder yields for one package.
MaxCands == 3

Packages == {"foo", "bar"}
Verbs == {"versions", "latest", "bogus"}

BoundedSeq(S, n) == UNION {[1..k -> S] : k \in 0..n}

\* ---------------------------------------------------------------- versions

\* packaging.version.Version(...): the release tuple and the pre-release tag
\* ("" when there is none) as parsed from the candidate's link.
Version(release, pre) ==
    [legacy |-> FALSE, release |-> release, pre |-> pre, raw |-> ""]

\* packaging.version.LegacyVersion(raw): a non-conforming version string.
LegacyVersion(raw) ==
    [legacy |-> TRUE, release |-> <<>>, pre |-> "", raw |-> raw]

\* The versions the index can advertise: 1.0 and 1.0.0 are two spellings of
\* one version, 2.0a1 is a pre-release of 2.0, "snapshot" is non-conforming.
Versions ==
    { Version(<<1, 0>>, ""), Version(<<1, 0, 0>>, ""), Version(<<1, 5>>, ""),
      Version(<<2, 0>>, "a1"), Version(<<2, 0>>, ""),
      LegacyVersion("snapshot") }

\* version.is_prerelease: always False for a LegacyVersion.
is_prerelease(v) == ~v.legacy /\ v.pre # ""

RECURSIVE StripZeros(_)
\* The release with its trailing zeros dropped, as the comparison key has it.
StripZeros(release) ==
    IF release # <<>> /\ release[Len(release)] = 0
    THEN StripZeros(SubSeq(release, 1, Len(release) - 1))
    ELSE release

\* version._key: epoch -1 for a LegacyVersion, 0 otherwise; a final release
\* ranks above its own pre-releases.
Key(v) ==
    [epoch |-> IF v.legacy THEN 0 - 1 ELSE 0,
     release |-> StripZeros(v.release),
     pre |-> IF v.pre = "" THEN 1 ELSE 0,
     raw |-> v.raw]

\* version.__eq__ / __hash__: by key.
VerEq(a, b) == Key(a) = Key(b)

RECURSIVE TupleLess(_, _)
\* Python's lexicographic order on tuples of integers.
TupleLess(s, t) ==
    IF s = <<>> THEN t # <<>>
    ELSE IF t = <<>> THEN FALSE
    ELSE IF Head(s) # Head(t) THEN Head(s) < Head(t)
    ELSE TupleLess(Tail(s), Tail(t))

\* version.__lt__: by key, compared as a tuple.
VerLess(a, b) ==
    LET ka == Key(a)
        kb == Key(b)
    IN  IF ka.epoch # kb.epoch THEN ka.epoch < kb.epoch
        ELSE IF ka.release # kb.release THEN TupleLess(ka.release, kb.release)
        ELSE ka.pre < kb.pre

RECURSIVE JoinTokens(_, _)
\* sep.join(parts), each part a token sequence.
JoinTokens(parts, sep) ==
    IF parts = <<>> THEN <<>>
    ELSE IF Len(parts) = 1 THEN parts[1]
    ELSE parts[1] \o <<sep>> \o JoinTokens(Tail(parts), sep)

\* str(ver)
Str(v) ==
    IF v.legacy THEN <<v.raw>>
    ELSE JoinTokens([k \in 1..Len(v.release) |-> <<ToString(v.release[k])>>], ".")
         \o (IF v.pre = "" THEN <<>> ELSE <<v.pre>>)

\* Mutant of Retained: pre-releases go whatever options.pre says.
RetainedFinalOnly(v, optPre) == ~is_prerelease(v)

\* Mutant of Retained: the pre-release filter is left out.
RetainedAll(v, optPre) == TRUE

\* The filter of _get_versions: with options.pre unset, pre-releases go.
Retained(v, optPre) == optPre \/ ~is_prerelease(v)

\* Mutant of MakeSet: the first element of the generator is consumed before
\* the set is built.
MakeSetSkipFirst(vs, optPre) ==
    {vs[k] : k \in {j \in 2..Len(vs) :
                       /\ Retained(vs[j], optPre)
                       /\ ~(\E h \in 2..(j - 1) :
                              Retained(vs[h], optPre) /\ VerEq(vs[h], vs[j]))}}

RECURSIVE MakeSet(_, _)
\* set(versions) over the filtered generator: elements are added in order
\* and an element equal to one already present is dropped.
MakeSet(vs, optPre) ==
    IF vs = <<>> THEN {}
    ELSE LET rest == MakeSet(SubSeq(vs, 1, Len(vs) - 1), optPre)
             v == vs[Len(vs)]
         IN  IF Retained(v, optPre) /\ ~(\E w \in rest : VerEq(w, v))
             THEN rest \cup {v}
             ELSE rest

\* Mutant of Before: reverse=True is left out.
BeforeAscending(x, y) == VerLess(x, y)

\* Whether x comes before y in sorted(versions, reverse=True).
Before(x, y) == VerLess(y, x)

RECURSIVE Sorted(_)
\* sorted(versions, reverse=True)
Sorted(S) ==
    IF S = {} THEN <<>>
    ELSE LET first == CHOOSE x \in S : \A y \in S \ {x} : Before(x, y)
         IN  <<first>> \o Sorted(S \ {first})

\* Mutant of NoVersions: the emptiness test is left out.
NoVersionsIgnored(S) == FALSE

\* if not versions:
NoVersions(S) == S = {}

\* [str(ver) for ver in sorted(versions, reverse=True)]
Formatted(S) == LET s == Sorted(S) IN [k \in 1..Len(s) |-> Str(s[k])]

\* ------------------------------------------------------------------ errors

NoExc == [cls |-> "None", args |-> <<>>]

\* The classes `except PipError` catches.
PipErrors == {"PipError", "CommandError", "DistributionNotFound"}

\* What the finder can raise instead of yielding candidates.
FinderErrors ==
    { [cls |-> "PipError", args |-> << <<"index unreachable">> >>],
      [cls |-> "RuntimeError", args |-> << <<"unexpected failure">> >>] }

\* ------------------------------------------------------------------- state

VARIABLES
    args,                \* run's args: the verb followed by the targets
    optPre,              \* options.pre
    pc,                  \* position in run and in the handler
    handler,             \* the handler run has invoked, "none" before
    exc,                 \* the exception in flight, NoExc when none
    sessions,            \* number of sessions built
    sessionOpen,         \* the session is inside its `with` block
    finderBuilt,         \* _build_package_finder has returned
    findCalls,           \* the packages find_all_candidates was called with
    i,                   \* position of the `for package in args` loop
    cands,               \* what the last find_all_candidates call yielded
    formatted_versions,  \* local of both handlers
    latest,              \* local of both handlers
    output,              \* lines written by write_output
    installInfo,         \* calls of print_dist_installation_info
    log,                 \* records logged by logger.warning / logger.error
    status               \* what run has returned, "running" before

vars == <<args, optPre, pc, handler, exc, sessions, sessionOpen, finderBuilt,
          findCalls, i, cands, formatted_versions, latest, output,
          installInfo, log, status>>

Targets == IF args = <<>> THEN <<>> ELSE Tail(args)

ArgLists ==
    {<<>>} \cup {<<v>> \o t : v \in Verbs, t \in BoundedSeq(Packages, MaxTargets)}

Init ==
    /\ args \in ArgLists
    /\ optPre \in BOOLEAN
    /\ pc = "start"
    /\ handler = "none"
    /\ exc = NoExc
    /\ sessions = 0
    /\ sessionOpen = FALSE
    /\ finderBuilt = FALSE
    /\ findCalls = <<>>
    /\ i = 0
    /\ cands = <<>>
    /\ formatted_versions = <<>>
    /\ latest = <<>>
    /\ output = <<>>
    /\ installInfo = <<>>
    /\ log = <<>>
    /\ status = "running"

\* --------------------------------------------------------------------- run

ExperimentalWarning ==
    <<"pip index is currently an experimental command. ",
      "It may be removed/changed in a future release ",
      "without prior warning.">>

\* Mutant of UsageMessage: the handlers are listed unsorted.
UsageMessageUnsorted ==
    <<"Need an action (">>
    \o JoinTokens(<< <<"versions">>, <<"latest">> >>, ", ")
    \o <<") to perform.">>

\* "Need an action (%s) to perform." with ", ".join(sorted(handlers))
UsageMessage ==
    <<"Need an action (">>
    \o JoinTokens(<< <<"latest">>, <<"versions">> >>, ", ")
    \o <<") to perform.">>

Handlers == {"versions", "latest"}

\* Mutant of VerbKnown: only the missing verb is rejected.
VerbGiven(a) == a # <<>>

\* not (not args or args[0] not in handlers)
VerbKnown(a) == IF a = <<>> THEN FALSE ELSE a[1] \in Handlers

\* Mutant of Warn: the warning is logged for a recognised verb only.
WarnKnownVerbOnly ==
    /\ pc = "start"
    /\ log' = IF VerbKnown(args)
              THEN Append(log, [level |-> "warning", msg |-> ExperimentalWarning])
              ELSE log
    /\ pc' = "check_verb"
    /\ UNCHANGED <<args, optPre, handler, exc, sessions, sessionOpen,
                   finderBuilt, findCalls, i, cands, formatted_versions,
                   latest, output, installInfo, status>>

\* logger.warning(...) at the top of run
Warn ==
    /\ pc = "start"
    /\ log' = Append(log, [level |-> "warning", msg |-> ExperimentalWarning])
    /\ pc' = "check_verb"
    /\ UNCHANGED <<args, optPre, handler, exc, sessions, sessionOpen,
                   finderBuilt, findCalls, i, cands, formatted_versions,
                   latest, output, installInfo, status>>

\* if not args or args[0] not in handlers: logger.error(...); return ERROR
BadVerb ==
    /\ pc = "check_verb"
    /\ ~VerbKnown(args)
    /\ log' = Append(log, [level |-> "error", msg |-> UsageMessage])
    /\ status' = "ERROR"
    /\ pc' = "done"
    /\ UNCHANGED <<args, optPre, handler, exc, sessions, sessionOpen,
                   finderBuilt, findCalls, i, cands, formatted_versions,
                   latest, output, installInfo>>

\* action = args[0]; handlers[action](options, args[1:])
Dispatch ==
    /\ pc = "check_verb"
    /\ VerbKnown(args)
    /\ handler' = args[1]
    /\ pc' = "arity"
    /\ UNCHANGED <<args, optPre, exc, sessions, sessionOpen, finderBuilt,
                   findCalls, i, cands, formatted_versions, latest, output,
                   installInfo, log, status>>

\* Mutant of ArityOk: `versions` takes one target or more.
ArityAtLeastOne(h, targets) == targets # <<>>

\* The arity test at the head of each handler.
ArityOk(h, targets) ==
    IF h = "versions" THEN Len(targets) = 1 ELSE targets # <<>>

ArityMessage(h) ==
    IF h = "versions" THEN <<"You need to specify exactly one argument">>
    ELSE <<"You need to specify at least one argument">>

\* raise CommandError(...)
ArityFail ==
    /\ pc = "arity"
    /\ ~ArityOk(handler, Targets)
    /\ exc' = [cls |-> "CommandError", args |-> <<ArityMessage(handler)>>]
    /\ pc' = "except"
    /\ UNCHANGED <<args, optPre, handler, sessions, sessionOpen, finderBuilt,
                   findCalls, i, cands, formatted_versions, latest, output,
                   installInfo, log, status>>

\* The arity test passes; target_python is made (and query = args[0]).
ArityPass ==
    /\ pc = "arity"
    /\ ArityOk(handler, Targets)
    /\ pc' = "build_session"
    /\ UNCHANGED <<args, optPre, handler, exc, sessions, sessionOpen,
                   finderBuilt, findCalls, i, cands, formatted_versions,
                   latest, output, installInfo, log, status>>

\* with self._build_session(options) as session:
BuildSession ==
    /\ pc = "build_session"
    /\ sessions' = sessions + 1
    /\ sessionOpen' = TRUE
    /\ pc' = "build_finder"
    /\ UNCHANGED <<args, optPre, handler, exc, finderBuilt, findCalls, i,
                   cands, formatted_versions, latest, output, installInfo,
                   log, status>>

\* finder = self._build_package_finder(...); the loop of `latest` starts.
BuildFinder ==
    /\ pc = "build_finder"
    /\ finderBuilt' = TRUE
    /\ i' = 1
    /\ pc' = "find"
    /\ UNCHANGED <<args, optPre, handler, exc, sessions, sessionOpen,
                   findCalls, cands, formatted_versions, latest, output,
                   installInfo, log, status>>

\* Mutant of Package: the first target whatever the loop's position.
PackageFirst == Targets[1]

\* The package of the current _get_versions call: query, or the loop's package.
Package == Targets[i]

\* finder.find_all_candidates(package) yields candidates.
FindAllCandidates ==
    /\ pc = "find"
    /\ \E c \in BoundedSeq(Versions, MaxCands) : cands' = c
    /\ findCalls' = Append(findCalls, Package)
    /\ pc' = "filter"
    /\ UNCHANGED <<args, optPre, handler, exc, sessions, sessionOpen,
                   finderBuilt, i, formatted_versions, latest, output,
                   installInfo, log, status>>

\* finder.find_all_candidates(package) raises.
FindRaises ==
    /\ pc = "find"
    /\ \E e \in FinderErrors : exc' = e
    /\ findCalls' = Append(findCalls, Package)
    /\ cands' = <<>>
    /\ pc' = "with_exit"
    /\ UNCHANGED <<args, optPre, handler, sessions, sessionOpen, finderBuilt,
                   i, formatted_versions, latest, output, installInfo, log,
                   status>>

NotFoundMessage(package) == <<"No matching distribution found for ", package>>

\* The rest of _get_versions: filter, set, the emptiness test, sort, format.
GetVersions ==
    /\ pc = "filter"
    /\ LET versions == MakeSet(cands, optPre)
       IN  IF NoVersions(versions)
           THEN /\ exc' = [cls |-> "DistributionNotFound",
                           args |-> <<NotFoundMessage(Package)>>]
                /\ pc' = "with_exit"
                /\ UNCHANGED formatted_versions
           ELSE /\ formatted_versions' = Formatted(versions)
                /\ pc' = "select"
                /\ UNCHANGED exc
    /\ UNCHANGED <<args, optPre, handler, sessions, sessionOpen, finderBuilt,
                   findCalls, i, cands, latest, output, installInfo, log,
                   status>>

\* Mutant of SelectLatest: `versions` takes the last element of the list.
SelectLatestLastInVersions ==
    /\ pc = "select"
    /\ latest' = IF handler = "latest" THEN formatted_versions[1]
                 ELSE formatted_versions[Len(formatted_versions)]
    /\ pc' = IF handler = "latest" THEN "write_latest" ELSE "with_exit"
    /\ UNCHANGED <<args, optPre, handler, exc, sessions, sessionOpen,
                   finderBuilt, findCalls, i, cands, formatted_versions,
                   output, installInfo, log, status>>

\* latest = formatted_versions[0]
SelectLatest ==
    /\ pc = "select"
    /\ latest' = formatted_versions[1]
    /\ pc' = IF handler = "latest" THEN "write_latest" ELSE "with_exit"
    /\ UNCHANGED <<args, optPre, handler, exc, sessions, sessionOpen,
                   finderBuilt, findCalls, i, cands, formatted_versions,
                   output, installInfo, log, status>>

\* Mutant of LatestLine: the format of the other verb.
LatestLineAsName(package, ver) == <<package, " (">> \o ver \o <<")">>

\* '{}=={}'.format(package, latest)
LatestLine(package, ver) == <<package, "==">> \o ver

\* write_output('{}=={}'.format(package, latest)), then the next package.
\* The locals of the finished iteration are dead: each is assigned again
\* before it is read, so they are reset here.
WriteLatest ==
    /\ pc = "write_latest"
    /\ output' = Append(output, LatestLine(Package, latest))
    /\ i' = i + 1
    /\ pc' = IF i < Len(Targets) THEN "find" ELSE "with_exit"
    /\ cands' = <<>>
    /\ formatted_versions' = <<>>
    /\ latest' = <<>>
    /\ UNCHANGED <<args, optPre, handler, exc, sessions, sessionOpen,
                   finderBuilt, findCalls, installInfo, log, status>>

\* Mutant of SessionExit: the session is closed after the block instead of
\* by a `with`, so an exception skips the close.
SessionExitNoFinally ==
    /\ pc = "with_exit"
    /\ sessionOpen' = (exc # NoExc)
    /\ pc' = IF exc # NoExc THEN "except"
             ELSE IF handler = "versions" THEN "write_name"
             ELSE "return"
    /\ UNCHANGED <<args, optPre, handler, exc, sessions, finderBuilt,
                   findCalls, i, cands, formatted_versions, latest, output,
                   installInfo, log, status>>

\* Mutant of SessionExit: the context manager swallows the exception and
\* the handler carries on after the block.
SessionExitSwallow ==
    /\ pc = "with_exit"
    /\ sessionOpen' = FALSE
    /\ pc' = IF handler = "versions" THEN "write_name" ELSE "return"
    /\ UNCHANGED <<args, optPre, handler, exc, sessions, finderBuilt,
                   findCalls, i, cands, formatted_versions, latest, output,
                   installInfo, log, status>>

\* Mutant of SessionExit: the session is built without a `with` and is
\* never closed.
SessionExitNeverCloses ==
    /\ pc = "with_exit"
    /\ pc' = IF exc # NoExc THEN "except"
             ELSE IF handler = "versions" THEN "write_name"
             ELSE "return"
    /\ UNCHANGED <<args, optPre, handler, exc, sessions, sessionOpen,
                   finderBuilt, findCalls, i, cands, formatted_versions,
                   latest, output, installInfo, log, status>>

\* The end of the `with` block, left normally or by an exception.
SessionExit ==
    /\ pc = "with_exit"
    /\ sessionOpen' = FALSE
    /\ pc' = IF exc # NoExc THEN "except"
             ELSE IF handler = "versions" THEN "write_name"
             ELSE "return"
    /\ UNCHANGED <<args, optPre, handler, exc, sessions, finderBuilt,
                   findCalls, i, cands, formatted_versions, latest, output,
                   installInfo, log, status>>

\* '{} ({})'.format(query, latest)
NameLine(query, ver) == <<query, " (">> \o ver \o <<")">>

\* Mutant of AvailableLine: the list is not joined, only its head is shown.
AvailableLineHeadOnly(fv) == <<"Available versions: ">> \o fv[1]

\* 'Available versions: {}'.format(', '.join(formatted_versions))
AvailableLine(fv) == <<"Available versions: ">> \o JoinTokens(fv, ", ")

WriteName ==
    /\ pc = "write_name"
    /\ output' = Append(output, NameLine(Package, latest))
    /\ pc' = "write_available"
    /\ UNCHANGED <<args, optPre, handler, exc, sessions, sessionOpen,
                   finderBuilt, findCalls, i, cands, formatted_versions,
                   latest, installInfo, log, status>>

WriteAvailable ==
    /\ pc = "write_available"
    /\ output' = Append(output, AvailableLine(formatted_versions))
    /\ pc' = "install_info"
    /\ UNCHANGED <<args, optPre, handler, exc, sessions, sessionOpen,
                   finderBuilt, findCalls, i, cands, formatted_versions,
                   latest, installInfo, log, status>>

\* print_dist_installation_info(query, latest)
InstallationInfo ==
    /\ pc = "install_info"
    /\ installInfo' = Append(installInfo, <<Package, latest>>)
    /\ pc' = "return"
    /\ UNCHANGED <<args, optPre, handler, exc, sessions, sessionOpen,
                   finderBuilt, findCalls, i, cands, formatted_versions,
                   latest, output, log, status>>

\* The handler returned: return SUCCESS
ReturnSuccess ==
    /\ pc = "return"
    /\ status' = "SUCCESS"
    /\ pc' = "done"
    /\ UNCHANGED <<args, optPre, handler, exc, sessions, sessionOpen,
                   finderBuilt, findCalls, i, cands, formatted_versions,
                   latest, output, installInfo, log>>

\* Mutant of Caught: `except DistributionNotFound` instead of PipError.
CaughtNotFoundOnly(e) == e.cls = "DistributionNotFound"

\* except PipError as e:
Caught(e) == e.cls \in PipErrors

\* Mutant of CatchPipError: ERROR is returned without logging the error.
CatchPipErrorSilent ==
    /\ pc = "except"
    /\ Caught(exc)
    /\ status' = "ERROR"
    /\ pc' = "done"
    /\ UNCHANGED <<args, optPre, handler, exc, sessions, sessionOpen,
                   finderBuilt, findCalls, i, cands, formatted_versions,
                   latest, output, installInfo, log>>

\* except PipError as e: logger.error(e.args[0]); return ERROR
CatchPipError ==
    /\ pc = "except"
    /\ Caught(exc)
    /\ log' = Append(log, [level |-> "error", msg |-> exc.args[1]])
    /\ status' = "ERROR"
    /\ pc' = "done"
    /\ UNCHANGED <<args, optPre, handler, exc, sessions, sessionOpen,
                   finderBuilt, findCalls, i, cands, formatted_versions,
                   latest, output, installInfo>>

\* Any other exception leaves run.
Propagate ==
    /\ pc = "except"
    /\ ~Caught(exc)
    /\ status' = "uncaught"
    /\ pc' = "done"
    /\ UNCHANGED <<args, optPre, handler, exc, sessions, sessionOpen,
                   finderBuilt, findCalls, i, cands, formatted_versions,
                   latest, output, installInfo, log>>

Next ==
    \/ Warn
    \/ BadVerb
    \/ Dispatch
    \/ ArityFail
    \/ ArityPass
    \/ BuildSession
    \/ BuildFinder
    \/ FindAllCandidates
    \/ FindRaises
    \/ GetVersions
    \/ SelectLatest
    \/ WriteLatest
    \/ SessionExit
    \/ WriteName
    \/ WriteAvailable
    \/ InstallationInfo
    \/ ReturnSuccess
    \/ CatchPipError
    \/ Propagate

Spec == Init /\ [][Next]_vars

\* ------------------------------------------------------------- properties

\* The text of each version of the index.
TextOf == [v \in Versions |-> Str(v)]

\* The version a text spells.
Parsed(t) == CHOOSE v \in Versions : TextOf[v] = t

\* The place of each version in the version order: the number of versions
\* of the index below it.  Equal versions have equal places.
Rank == [v \in Versions |-> Cardinality({w \in Versions : VerLess(w, v)})]

\* The candidates of the current call that the pre-release policy keeps.
RetainedCands ==
    {cands[k] : k \in {j \in DOMAIN cands : optPre \/ ~is_prerelease(cands[j])}}

\* The current call's candidates leave nothing once pre-releases are filtered.
NoneRetained == RetainedCands = {}

\* The verb is one of the two and the number of targets suits it.
ArgsValid ==
    IF args = <<>> THEN FALSE
    ELSE \/ args[1] = "versions" /\ Len(args) = 2
         \/ args[1] = "latest" /\ Len(args) >= 2

VerbValid == IF args = <<>> THEN FALSE ELSE args[1] \in {"versions", "latest"}

\* The _get_versions call for Targets[i] has ended by itself, not by an
\* error of the finder.
Queried ==
    /\ i \in 1..Len(Targets)
    /\ Len(findCalls) = i
    /\ pc \notin {"find", "filter"}
    /\ exc \notin FinderErrors

\* A failure is in flight or has been reported.
Failed == exc # NoExc \/ status \in {"ERROR", "uncaught"}

\* C1: with options.pre unset, the list _get_versions returns holds no
\* pre-release version, whatever the candidates were.
C1_PrereleaseExclusion ==
    ~optPre =>
        \A k \in DOMAIN formatted_versions :
            ~(\E v \in Versions : is_prerelease(v) /\ TextOf[v] = formatted_versions[k])

\* C1: the candidates 1.0, 2.0a1, 1.5 with options.pre unset have given
\* the list 1.5, 1.0.
C1_Witness ==
    /\ pc = "select"
    /\ ~optPre
    /\ cands = <<Version(<<1, 0>>, ""), Version(<<2, 0>>, "a1"),
                 Version(<<1, 5>>, "")>>
    /\ formatted_versions = << <<"1", ".", "5">>, <<"1", ".", "0">> >>

\* C2: the list _get_versions returns is strictly descending, holds every
\* retained version exactly once, and starts with the greatest retained
\* version, which is the value both verbs take as latest.
C2_Completeness ==
    formatted_versions # <<>> =>
        LET fv == formatted_versions
            n == Len(fv)
            ver == [k \in 1..n |-> Parsed(fv[k])]
            kept == RetainedCands
        IN  /\ \A k \in 1..(n - 1) : Rank[ver[k + 1]] < Rank[ver[k]]
            /\ \A c \in kept :
                   Cardinality({k \in 1..n : Rank[ver[k]] = Rank[c]}) = 1
            /\ \A c \in kept : Rank[c] <= Rank[ver[1]]
            /\ latest # <<>> => latest = fv[1]

\* C2: three candidates, one version named twice, not in descending order,
\* have been turned into a list of two.
C2_Witness ==
    /\ pc = "select"
    /\ Len(cands) = 3
    /\ \E j, k \in DOMAIN cands : j < k /\ VerEq(cands[j], cands[k])
    /\ VerLess(cands[1], cands[3])
    /\ Len(formatted_versions) = 2

\* C3: when nothing is retained for a package, _get_versions raises
\* DistributionNotFound naming that package, it returns no list, and neither
\* a line nor an installation-info call is made for that package.
C3_EmptyResultMapping ==
    (Queried /\ NoneRetained) =>
        /\ exc = [cls |-> "DistributionNotFound",
                  args |-> << <<"No matching distribution found for ", Targets[i]>> >>]
        /\ formatted_versions = <<>>
        /\ Len(output) = i - 1
        /\ installInfo = <<>>
        /\ pc \in {"with_exit", "except", "done"}
        /\ pc = "done" => status = "ERROR"

\* C3: a package with pre-release candidates only has been refused.
C3_Witness ==
    /\ pc = "done"
    /\ ~optPre
    /\ cands # <<>>
    /\ exc.cls = "DistributionNotFound"
    /\ status = "ERROR"

\* C4: when `latest` fails on its k-th package with DistributionNotFound,
\* the output is one '<name>==<latest>' line for each of the k-1 packages
\* before it, in order, the finder was called for the first k packages only,
\* and run returns ERROR.
C4_PropagateFirstError ==
    (handler = "latest" /\ exc.cls = "DistributionNotFound") =>
        /\ i \in 1..Len(Targets)
        /\ Len(output) = i - 1
        /\ \A k \in 1..(i - 1) :
               \E v \in Versions : output[k] = <<Targets[k], "==">> \o TextOf[v]
        /\ findCalls = SubSeq(Targets, 1, i)
        /\ exc.args = << <<"No matching distribution found for ", Targets[i]>> >>
        /\ pc = "done" => status = "ERROR"

\* C4: `latest foo bar`-like run that wrote the first line and failed on the
\* second package.
C4_Witness ==
    /\ pc = "done"
    /\ handler = "latest"
    /\ exc.cls = "DistributionNotFound"
    /\ i = 2
    /\ Len(output) = 1
    /\ status = "ERROR"

\* C5: with no verb or an unknown verb, run returns ERROR with nothing
\* raised, no handler invoked, no session, no finder, no finder call and no
\* output.
C5_UnknownVerb ==
    ~VerbValid =>
        /\ pc \in {"start", "check_verb", "done"}
        /\ handler = "none"
        /\ exc = NoExc
        /\ sessions = 0
        /\ ~finderBuilt
        /\ findCalls = <<>>
        /\ output = <<>>
        /\ installInfo = <<>>
        /\ pc = "done" => status = "ERROR"

\* C5: a run with an unknown verb and a target has ended.
C5_Witness ==
    /\ pc = "done"
    /\ Len(args) = 2
    /\ args[1] = "bogus"
    /\ status = "ERROR"

\* C6: a known verb with the wrong number of targets fails with
\* CommandError before a session or a finder exists and before any finder
\* call or output, and run returns ERROR; with the right number of targets
\* no CommandError is raised and the session is built.
C6_ArityBeforeIO ==
    /\ (VerbValid /\ ~ArgsValid) =>
           /\ sessions = 0
           /\ ~finderBuilt
           /\ findCalls = <<>>
           /\ output = <<>>
           /\ exc.cls \in {"None", "CommandError"}
           /\ pc = "done" => (exc.cls = "CommandError" /\ status = "ERROR")
    /\ ArgsValid =>
           /\ exc.cls # "CommandError"
           /\ pc = "done" => sessions = 1

\* C6: `versions` with two targets has been refused.
C6_Witness ==
    /\ pc = "done"
    /\ handler = "versions"
    /\ Len(Targets) = 2
    /\ exc.cls = "CommandError"
    /\ status = "ERROR"

\* C7 as stated: in every terminal state of run exactly one session has been
\* acquired and it is closed.
C7_Original == pc = "done" => (sessions = 1 /\ ~sessionOpen)

\* C7, amended: at most one session is acquired per invocation, exactly one
\* when the verb is known and the arity valid and none otherwise; a session
\* that was acquired is closed on every exit path before run reports its
\* status.
C7_SessionLifecycle ==
    /\ sessions <= 1
    /\ sessionOpen => (sessions = 1 /\ status = "running")
    /\ pc \in {"except", "done"} => ~sessionOpen
    /\ pc = "done" => (sessions = 1 <=> ArgsValid)

\* C7: a per-package failure has ended the run with the session closed.
C7_Witness ==
    /\ pc = "done"
    /\ exc.cls = "DistributionNotFound"
    /\ sessions = 1
    /\ ~sessionOpen

\* C8: run returns SUCCESS exactly when the handler it invoked ended without
\* raising, ERROR when the handler raised a PipError-class error, and lets any
\* other error out without a status.
C8_ExitStatus ==
    /\ pc # "done" => status = "running"
    /\ pc = "done" =>
           /\ status = "SUCCESS" <=> (handler # "none" /\ exc = NoExc)
           /\ exc.cls \in {"CommandError", "DistributionNotFound", "PipError"}
                  => status = "ERROR"
           /\ exc.cls = "RuntimeError" => status = "uncaught"

\* C8: a PipError raised by the finder has become ERROR.
C8_Witness ==
    /\ pc = "done"
    /\ exc.cls = "PipError"
    /\ status = "ERROR"

\* C9: a failing run of `versions` has written nothing, a finished run of
\* `versions` has written both lines or none, and a failing run of `latest`
\* has written lines for the packages before the failing one only.
C9_NoPartialOutput ==
    /\ (handler = "versions" /\ Failed) => output = <<>>
    /\ (handler = "versions" /\ pc = "done") =>
           \/ output = <<>>
           \/ /\ Len(output) = 2
              /\ output[1][2] = " ("
              /\ output[2][1] = "Available versions: "
    /\ (handler = "latest" /\ Failed) =>
           /\ Len(output) = IF findCalls = <<>> THEN 0 ELSE Len(findCalls) - 1
           /\ \A k \in DOMAIN output :
                  output[k][1] = findCalls[k] /\ output[k][2] = "=="

\* C9: `versions` has failed on its package.
C9_Witness ==
    /\ pc = "done"
    /\ handler = "versions"
    /\ findCalls # <<>>
    /\ status = "ERROR"
    /\ output = <<>>

\* C10: the experimental warning is the first thing run does and it is
\* logged exactly once, whatever the verb and the outcome.
C10_ExperimentalWarning ==
    /\ pc = "start" =>
           (log = <<>> /\ handler = "none" /\ status = "running")
    /\ pc # "start" =>
           /\ log # <<>>
           /\ log[1] = [level |-> "warning", msg |-> ExperimentalWarning]
           /\ {k \in DOMAIN log : log[k].level = "warning"} = {1}

\* C10: a run without a verb has ended with the warning and the usage error.
C10_Witness ==
    /\ pc = "done"
    /\ args = <<>>
    /\ Len(log) = 2
    /\ log[1].level = "warning"

\* C11: a successful `versions` run writes '<name> (<latest>)', then
\* 'Available versions: ' with every retained version once, in descending
\* order and starting with <latest>, then calls the installation-info
\* collaborator with (name, latest), and writes nothing else.
C11_VersionsOutputOrder ==
    handler = "versions" =>
        LET fv == formatted_versions
            n == Len(fv)
            ver == [k \in 1..n |-> Parsed(fv[k])]
            name == <<Targets[1], " (">> \o fv[1] \o <<")">>
            listed == <<"Available versions: ">> \o JoinTokens(fv, ", ")
        IN  /\ pc \notin {"write_available", "install_info", "return"}
                   => (output = <<>> \/ status = "SUCCESS")
            /\ pc = "write_available" => (output = <<name>> /\ installInfo = <<>>)
            /\ pc = "install_info" => (output = <<name, listed>> /\ installInfo = <<>>)
            /\ (pc = "return" \/ status = "SUCCESS") =>
                   /\ output = <<name, listed>>
                   /\ installInfo = << <<Targets[1], fv[1]>> >>
                   /\ \A k \in 1..(n - 1) : Rank[ver[k + 1]] < Rank[ver[k]]
                   /\ {Rank[ver[k]] : k \in 1..n} = {Rank[c] : c \in RetainedCands}

\* C11: `versions` has succeeded on a package with three retained versions.
C11_Witness ==
    /\ handler = "versions"
    /\ status = "SUCCESS"
    /\ Len(formatted_versions) = 3
    /\ Len(output) = 2
    /\ Len(installInfo) = 1

\* The reorderings of a sequence of n elements.
Perms(n) == {f \in [1..n -> 1..n] : \A j, k \in 1..n : f[j] = f[k] => j = k}

\* C12 as stated: whatever the order in which the finder yields the same
\* candidates, _get_versions returns the same list.
C12_Determinism ==
    pc = "select" =>
        \A f \in Perms(Len(cands)) :
            Formatted(MakeSet([k \in 1..Len(cands) |-> cands[f[k]]], optPre))
                = formatted_versions

\* C13: the versions _get_versions returns are exactly the distinct
\* versions of the candidates when options.pre is set, and exactly the
\* distinct non-pre-release ones when it is not; every text returned is the
\* text of a candidate.
C13_NoOtherFiltering ==
    formatted_versions # <<>> =>
        LET fv == formatted_versions
            all == {cands[k] : k \in DOMAIN cands}
            expected == IF optPre THEN all
                        ELSE {c \in all : ~is_prerelease(c)}
        IN  /\ {Rank[Parsed(fv[k])] : k \in DOMAIN fv} = {Rank[c] : c \in expected}
            /\ {fv[k] : k \in DOMAIN fv} \subseteq {TextOf[c] : c \in expected}
            /\ Len(fv) = Cardinality({Rank[c] : c \in expected})

\* C13: the candidates 1.0, 2.0a1 with options.pre set have given the list
\* 2.0a1, 1.0, and the pre-release is the latest.
C13_Witness ==
    /\ optPre
    /\ cands = <<Version(<<1, 0>>, ""), Version(<<2, 0>>, "a1")>>
    /\ formatted_versions = << <<"2", ".", "0", "a1">>, <<"1", ".", "0">> >>
    /\ latest = <<"2", ".", "0", "a1">>

\* C14: filtering and deduplicating the versions _get_versions returned,
\* with the same options.pre, gives those same versions again.
C14_FilterIdempotent ==
    formatted_versions # <<>> =>
        LET returned == [k \in DOMAIN formatted_versions |->
                            Parsed(formatted_versions[k])]
        IN  MakeSet(returned, optPre) = {returned[k] : k \in DOMAIN returned}

\* C14: a call that dropped a pre-release has returned two versions.
C14_Witness ==
    /\ pc = "select"
    /\ ~optPre
    /\ \E k \in DOMAIN cands : is_prerelease(cands[k])
    /\ Len(cands) = 3
    /\ Len(formatted_versions) = 2

\* The positions of the error records in the log.
ErrorLines == {k \in DOMAIN log : log[k].level = "error"}

\* C15: a PipError raised in a handler is logged nowhere before run catches
\* it; run logs it as one error line with the error's message and returns
\* ERROR; the finder is called at most once per target, in order, and never
\* again once an error has been raised.
C15_SingleErrorBoundary ==
    /\ findCalls = SubSeq(Targets, 1, Len(findCalls))
    /\ exc # NoExc => Len(findCalls) = i
    /\ pc # "done" => ErrorLines = {}
    /\ (pc = "done"
        /\ exc.cls \in {"CommandError", "DistributionNotFound", "PipError"}) =>
           /\ status = "ERROR"
           /\ ErrorLines = {Len(log)}
           /\ log[Len(log)] = [level |-> "error", msg |-> exc.args[1]]

\* C15: the finder's PipError on the first of two packages has ended the
\* run; the second package was never looked up.
C15_Witness ==
    /\ pc = "done"
    /\ exc.cls = "PipError"
    /\ Len(Targets) = 2
    /\ findCalls = <<Targets[1]>>
    /\ status = "ERROR"
    /\ Len(log) = 2

\* C16: a list returned by _get_versions has at least one element, so
\* formatted_versions[0] is never taken of an empty list and latest is
\* always a version text where it is used.
C16_NonEmptyResult ==
    /\ pc = "select" => Len(formatted_versions) >= 1
    /\ pc \in {"write_latest", "write_name", "write_available", "install_info"} =>
           /\ Len(formatted_versions) >= 1
           /\ \E v \in Versions : latest = TextOf[v]

\* C16: a call has returned a list of one element out of three candidates.
C16_Witness ==
    /\ pc = "select"
    /\ Len(cands) = 3
    /\ Len(formatted_versions) = 1

\* The retained candidates of the current call that no retained candidate
\* exceeds.
GreatestRetained == {c \in RetainedCands : \A d \in RetainedCands : Rank[d] <= Rank[c]}

\* C17, the state part: a `latest` run that returned SUCCESS looked up every
\* target once, in order, and wrote one '<name>==<version>' line per target
\* in that order.
C17_AllLinesWritten ==
    (handler = "latest" /\ status = "SUCCESS") =>
        /\ findCalls = Targets
        /\ Len(output) = Len(Targets)
        /\ \A k \in DOMAIN output :
               \E v \in Versions : output[k] = <<Targets[k], "==">> \o TextOf[v]
        /\ exc = NoExc
        /\ ErrorLines = {}

\* C17, the step part: the line written for a package carries the greatest
\* retained version of that package's candidates.
C17_LineCarriesGreatest ==
    (pc = "write_latest") =>
        \E c \in GreatestRetained :
            output' = Append(output, <<Targets[i], "==">> \o TextOf[c])

\* C17: when every target has a retained version, `latest` writes one
\* '<name>==<latest>' line per target, in argument order and once per
\* occurrence, each with the greatest retained version of that package, and
\* run returns SUCCESS.
C17_SuccessfulLatest ==
    /\ [](C17_AllLinesWritten)
    /\ [](handler = "latest" /\ pc = "done" /\ exc = NoExc => status = "SUCCESS")
    /\ [](handler = "latest" /\ exc.cls = "DistributionNotFound" => NoneRetained)
    /\ [][C17_LineCarriesGreatest]_vars

\* C17: `latest` has succeeded on one package named twice, with a different
\* version each time.
C17_Witness ==
    /\ handler = "latest"
    /\ status = "SUCCESS"
    /\ Len(Targets) = 2
    /\ Targets[1] = Targets[2]
    /\ Len(output) = 2
    /\ output[1] # output[2]

\* C18, `versions`: a step that writes a line or calls the installation-info
\* collaborator is taken with the session already released.
C18_VersionsWritesAfterRelease ==
    (handler = "versions" /\ (output' # output \/ installInfo' # installInfo)) =>
        (sessions = 1 /\ ~sessionOpen /\ ~sessionOpen')

\* C18, `latest`: a step that writes a line is taken with the session open,
\* and leaves it open.
C18_LatestWritesWhileOpen ==
    (handler = "latest" /\ output' # output) => (sessionOpen /\ sessionOpen')

\* C18: `versions` writes its two lines and calls the installation-info
\* collaborator only after the session has been released, `latest` writes
\* every line while the session is open, so when a package of `latest`
\* fails the lines of the packages before it are already written.
C18_OutputTiming ==
    /\ [][C18_VersionsWritesAfterRelease /\ C18_LatestWritesWhileOpen]_vars
    /\ []((handler = "versions" /\ sessionOpen) =>
              (output = <<>> /\ installInfo = <<>>))
    /\ []((handler = "latest" /\ exc # NoExc /\ i >= 1) => Len(output) = i - 1)

\* C18: the second package of `latest` has just failed, the session is
\* still open and the first package's line is written.
C18_Witness ==
    /\ handler = "latest"
    /\ pc = "with_exit"
    /\ exc.cls = "DistributionNotFound"
    /\ sessionOpen
    /\ i = 2
    /\ Len(output) = 1

\* The latest version as a function of the candidates and options.pre
\* alone: the text of the first retained candidate that no retained
\* candidate exceeds.
LatestOf(c, p) ==
    LET kept == {k \in DOMAIN c : p \/ ~is_prerelease(c[k])}
        top == {k \in kept : \A j \in kept : Rank[c[j]] <= Rank[c[k]]}
        first == CHOOSE k \in top : \A j \in top : k <= j
    IN  TextOf[c[first]]

\* C19, the step part: the line each verb writes for a package carries
\* LatestOf the package's candidates.
C19_LineCarriesLatestOf ==
    /\ pc = "write_latest" =>
           output' = Append(output, <<Targets[i], "==">> \o LatestOf(cands, optPre))
    /\ pc = "write_name" =>
           output' = Append(output,
                            <<Targets[1], " (">> \o LatestOf(cands, optPre) \o <<")">>)

\* C19: the version either verb reports for a package is a function of that
\* package's candidates and options.pre alone: it does not depend on the
\* packages looked up before it, and `latest` and `versions` report the same
\* version for the same candidates.
C19_LookupsIndependent ==
    /\ []((pc \in {"write_latest", "write_name"}) => latest = LatestOf(cands, optPre))
    /\ [][C19_LineCarriesLatestOf]_vars

\* C19: `latest` is about to write the line of its second package, whose
\* version differs from the one written for the first.
C19_Witness ==
    /\ pc = "write_latest"
    /\ i = 2
    /\ Len(output) = 1
    /\ output[1] # <<Targets[1], "==">> \o latest
    /\ Len(cands) >= 2

\* C20: a run that returned ERROR has logged exactly one error line, the
\* usage message listing 'latest, versions' for a missing or unknown verb and
\* the caught error's message otherwise; a run that returned SUCCESS has
\* logged no error line and has written at least one line.
C20_LogAgreesWithStatus ==
    /\ status = "ERROR" =>
           /\ ErrorLines = {Len(log)}
           /\ IF VerbValid
              THEN exc # NoExc /\ log[Len(log)].msg = exc.args[1]
              ELSE log[Len(log)].msg =
                       <<"Need an action (", "latest", ", ", "versions",
                         ") to perform.">>
    /\ status = "SUCCESS" => (ErrorLines = {} /\ Len(output) >= 1)

\* C20: `latest` with one package has succeeded with the warning as the
\* only log record.
C20_Witness ==
    /\ status = "SUCCESS"
    /\ handler = "latest"
    /\ Len(Targets) = 1
    /\ Len(output) = 1
    /\ Len(log) = 1

====
